---- MODULE Spec2Model ----
(***************************************************************************)
(* A model of brokkr.go: the Brokkr lifecycle orchestrator.                *)
(*                                                                         *)
(* Start() spawns, per background task, a stop-unit and a start-unit in    *)
(* an errgroup derived from mainContext, then a coordination unit that     *)
(* selects on the group context and the interrupt channel, and finally     *)
(* blocks in TaskErrorGroup.Wait().  Stop() cancels mainContext.           *)
(*                                                                         *)
(* The errgroup is modelled by what it does: a first-error slot written    *)
(* once by the first unit that returns a non-nil error (gErr), and a       *)
(* derived context that is done when its parent is done, when the slot is  *)
(* written, or when Wait returns (gCancelled).                             *)
(*                                                                         *)
(* Three specifications share the actions.  Spec lets Stop() be called any *)
(* number of times without recording the calls.  StopSpec counts the       *)
(* caller's Stop() calls and records what they return.  FairSpec adds the  *)
(* scheduling assumptions under which Start() must terminate.  A fourth,   *)
(* ConfigSpec, is NewBrokkr() applying its options one by one; the other   *)
(* three start from the orchestrator it has built.                         *)
(***************************************************************************)
EXTENDS Naturals, Sequences, FiniteSets

\* ------------------------------------------------------------------ bounds
\* The most tasks a configuration holds.
MaxTasks == 2
\* The most tasks of the configurations of StopSpec and FairSpec.
MaxSmallTasks == 1
\* The last clock tick.
MaxTime == 2
\* The most explicit Stop() calls StopSpec counts.
MaxStopCalls == 2

\* The most options NewBrokkr is given in ConfigSpec.
MaxOpts == 2
\* The most tasks one AddBackgroundTasks option is given.
MaxArgs == 2

\* c.stopTimeout, in clock ticks (the code's default is 60 seconds).
StopTimeout == 1

\* ------------------------------------------------------------ error values
Nil == [kind |-> "nil", task |-> 0]
None == [kind |-> "none", task |-> 0]
Canceled == [kind |-> "canceled", task |-> 0]
DeadlineExceeded == [kind |-> "deadline", task |-> 0]
\* A stop-unit that swallows the failure of uuid.NewUUID().
ErrUUIDSwallowed(t) == Nil
\* The error the stop-unit builds when uuid.NewUUID() fails.
ErrUUID(t) == [kind |-> "uuid", task |-> t]
ErrStart(t) == [kind |-> "start", task |-> t]
ErrStop(t) == [kind |-> "stop", task |-> t]

\* errors.Is(err, context.Canceled)
IsCanceled(e) == e.kind = "canceled"

VARIABLES
    opts,             \* NewBrokkr's arguments: per option, the tasks given to AddBackgroundTasks
    optI,             \* index of NewBrokkr's range loop over opts
    backgroundTasks,  \* c.backgroundTasks: sequence of [name, critical]
    mainCancelled,    \* c.mainContext is done
    startPc,          \* where Start() is: idle, loop, wait, done
    loopI,            \* index of the range loop over c.backgroundTasks
    gErr,             \* the errgroup's first-error slot (Nil: not written)
    gCancelled,       \* the errgroup cancelled its own context
    stopPc,           \* per task, the stop-unit: none, waiting, running, done, uuidFailed
    startUnitPc,      \* per task, the start-unit: none, spawned, running, done
    coordPc,          \* the coordination unit: none, running, doneCtx, doneSig
    stopCtxErr,       \* per task, taskStopCtx.Err() (None: not done)
    stopCtxName,      \* per task, the name taskStopCtx is tagged with (0: no context)
    stopDeadline,     \* per task, taskStopCtx's deadline
    stopCount,        \* per task, the number of OnStop invocations
    taskErrored,      \* some OnStop returned non-nil, or some OnStart an error of its own
    bgTasksWG,        \* the counter of bgTasksWG
    sigPending,       \* interruptSignal holds a signal (capacity 1)
    now,              \* the clock
    stopCalls,        \* the number of explicit Stop() calls made so far
    idleStop,         \* one of them was made before Start()
    stopResult,       \* what the last explicit Stop() returned
    firstTaskErr,     \* the earliest non-cancellation error a stop-unit or critical start-unit returned
    result            \* what Start() returned (None: has not returned)

vars == <<opts, optI, backgroundTasks, mainCancelled, startPc, loopI, gErr, gCancelled,
          stopPc, startUnitPc, coordPc, stopCtxErr, stopCtxName, stopDeadline,
          stopCount, taskErrored, bgTasksWG, sigPending, now, stopCalls, idleStop,
          stopResult, firstTaskErr, result>>

Tasks == 1..Len(backgroundTasks)

\* background.IsCriticalToStop(task)
IsCriticalToStop(t) == backgroundTasks[t].critical

\* The configurations NewBrokkr(AddBackgroundTasks(...)) can produce: up to
\* max tasks, each with a name of its own, critical or not.
TaskLists(max) ==
    UNION {{[i \in 1..n |-> [name |-> i, critical |-> c[i]]] :
                c \in [1..n -> BOOLEAN]} : n \in 0..max}

\* c.mainContextCancel != nil: NewBrokkr always sets it.
MainContextCancelSet == TRUE

\* A group context that is done from the start.
GroupCtxDoneAtOnce == startPc # "idle"

\* A group context that does not inherit its parent's cancellation.
GroupCtxDoneOwnOnly == startPc # "idle" /\ gCancelled

\* TaskErrorGroupCtx.Done() is closed: the parent is done or the group cancelled.
GroupCtxDone == startPc # "idle" /\ (mainCancelled \/ gCancelled)

\* A slot that keeps the last error submitted.
SlotAfterLast(slot, err) == IF err # Nil THEN err ELSE slot

\* errgroup: g.errOnce.Do(func() { g.err = err; cancel() }) for a unit returning err.
SlotAfter(slot, err) == IF err # Nil /\ slot = Nil THEN err ELSE slot

GroupCancelAfter(cancelled, err) == cancelled \/ err # Nil

\* The first error a stop-unit or critical start-unit returned that is no cancellation.
FirstTaskErrAfter(first, err) ==
    IF first = None /\ err # Nil /\ ~IsCanceled(err) THEN err ELSE first

\* Cancelling mainContext cancels every live stop context derived from it
\* (createChildContext derives them from c.mainContext).
CancelChildren(errs) ==
    [t \in DOMAIN errs |->
        IF stopPc[t] = "running" /\ errs[t] = None THEN Canceled ELSE errs[t]]

\* context.WithTimeout on a parent: done at once if the parent is done or the
\* timeout is not positive.
NewStopCtxErr(parentDone) ==
    IF parentDone THEN Canceled
    ELSE IF StopTimeout = 0 THEN DeadlineExceeded ELSE None

\* t.GetName() in the stop-unit: t is the range loop's variable, one variable
\* for all iterations (Go 1.20 and 1.21), read when the stop-unit runs; it
\* holds the task of the latest iteration begun.
LoopVarName == backgroundTasks[loopI - 1].name

\* The parent of a task's stop context is done.
StopCtxParentDone == mainCancelled

\* A wait that covers the start-units alone (what bgTasksWG counts).
UnitsDoneStartOnly == \A t \in Tasks : startUnitPc[t] = "done"

\* TaskErrorGroup.Wait() returns: every unit spawned with Go has returned.
UnitsDone ==
    /\ \A t \in Tasks : stopPc[t] \in {"done", "uuidFailed"}
    /\ \A t \in Tasks : startUnitPc[t] = "done"
    /\ coordPc \in {"doneCtx", "doneSig"}

\* A return without the errors.Is(err, context.Canceled) filter.
StartResultUnfiltered(err) == err

\* Start()'s return value for the slot Wait() hands back.
StartResult(err) == IF err # Nil /\ ~IsCanceled(err) THEN err ELSE Nil

\* -------------------------------------------------------------------- Init
\* The state after NewBrokkr(AddBackgroundTasks(tasks...)) for a list of lists.
InitWith(lists) ==
    /\ backgroundTasks \in lists
    /\ opts = <<backgroundTasks>>
    /\ optI = 2
    /\ mainCancelled = FALSE
    /\ startPc = "idle"
    /\ loopI = 1
    /\ gErr = Nil
    /\ gCancelled = FALSE
    /\ stopPc = [t \in Tasks |-> "none"]
    /\ startUnitPc = [t \in Tasks |-> "none"]
    /\ coordPc = "none"
    /\ stopCtxErr = [t \in Tasks |-> None]
    /\ stopCtxName = [t \in Tasks |-> 0]
    /\ stopDeadline = [t \in Tasks |-> 0]
    /\ stopCount = [t \in Tasks |-> 0]
    /\ taskErrored = FALSE
    /\ bgTasksWG = 0
    /\ sigPending = FALSE
    /\ now = 0
    /\ stopCalls = 0
    /\ idleStop = FALSE
    /\ stopResult = None
    /\ firstTaskErr = None
    /\ result = None

Init == InitWith(TaskLists(MaxTasks))

InitSmall == InitWith(TaskLists(MaxSmallTasks))

\* ----------------------------------------------------------------- Start()
\* Start() is called: the errgroup and its context are created.
StartBegin ==
    /\ startPc = "idle"
    /\ startPc' = "loop"
    /\ loopI' = 1
    /\ gErr' = Nil
    /\ gCancelled' = FALSE
    /\ UNCHANGED <<opts, optI, backgroundTasks, mainCancelled, stopPc,
                   startUnitPc, coordPc, stopCtxErr, stopCtxName,
                   stopDeadline, stopCount, taskErrored, bgTasksWG,
                   sigPending, now, stopCalls, idleStop, stopResult,
                   firstTaskErr, result>>

\* One iteration of the loop: Go(stop-unit), bgTasksWG.Add(1), Go(start-unit).
SpawnTask ==
    /\ startPc = "loop"
    /\ loopI <= Len(backgroundTasks)
    /\ stopPc' = [stopPc EXCEPT ![loopI] = "waiting"]
    /\ startUnitPc' = [startUnitPc EXCEPT ![loopI] = "spawned"]
    /\ bgTasksWG' = bgTasksWG + 1
    /\ loopI' = loopI + 1
    /\ UNCHANGED <<opts, optI, backgroundTasks, mainCancelled, startPc, gErr,
                   gCancelled, coordPc, stopCtxErr, stopCtxName, stopDeadline,
                   stopCount, taskErrored, sigPending, now, stopCalls,
                   idleStop, stopResult, firstTaskErr, result>>

\* After the loop: signal.Notify, then Go(coordination unit); Start() then waits.
NotifyAndSpawnCoord ==
    /\ startPc = "loop"
    /\ loopI > Len(backgroundTasks)
    /\ coordPc' = "running"
    /\ startPc' = "wait"
    /\ UNCHANGED <<opts, optI, backgroundTasks, mainCancelled, loopI, gErr,
                   gCancelled, stopPc, startUnitPc, stopCtxErr, stopCtxName,
                   stopDeadline, stopCount, taskErrored, bgTasksWG,
                   sigPending, now, stopCalls, idleStop, stopResult,
                   firstTaskErr, result>>

\* A Start() that cancels the root context when it returns.
StartReturnCancelsRoot ==
    /\ startPc = "wait"
    /\ UnitsDone
    /\ gCancelled' = TRUE
    /\ mainCancelled' = TRUE
    /\ result' = StartResult(gErr)
    /\ startPc' = "done"
    /\ UNCHANGED <<opts, optI, backgroundTasks, loopI, gErr, stopPc,
                   startUnitPc, coordPc, stopCtxErr, stopCtxName,
                   stopDeadline, stopCount, taskErrored, bgTasksWG,
                   sigPending, now, stopCalls, idleStop, stopResult,
                   firstTaskErr>>

\* TaskErrorGroup.Wait() returns (cancelling the group context) and Start() returns.
StartReturn ==
    /\ startPc = "wait"
    /\ UnitsDone
    /\ gCancelled' = TRUE
    /\ result' = StartResult(gErr)
    /\ startPc' = "done"
    /\ UNCHANGED <<opts, optI, backgroundTasks, mainCancelled, loopI, gErr,
                   stopPc, startUnitPc, coordPc, stopCtxErr, stopCtxName,
                   stopDeadline, stopCount, taskErrored, bgTasksWG,
                   sigPending, now, stopCalls, idleStop, stopResult,
                   firstTaskErr>>

\* --------------------------------------------------------------- stop-unit
\* uuid.NewUUID() fails: the stop-unit returns its error without calling OnStop.
StopUnitUUIDFails(t) ==
    /\ stopPc[t] = "waiting"
    /\ GroupCtxDone
    /\ stopPc' = [stopPc EXCEPT ![t] = "uuidFailed"]
    /\ gErr' = SlotAfter(gErr, ErrUUID(t))
    /\ gCancelled' = GroupCancelAfter(gCancelled, ErrUUID(t))
    /\ firstTaskErr' = FirstTaskErrAfter(firstTaskErr, ErrUUID(t))
    /\ UNCHANGED <<opts, optI, backgroundTasks, mainCancelled, startPc, loopI,
                   startUnitPc, coordPc, stopCtxErr, stopCtxName,
                   stopDeadline, stopCount, taskErrored, bgTasksWG,
                   sigPending, now, stopCalls, idleStop, stopResult, result>>

\* A teardown that stops the tasks one after another, in registration order.
StopUnitCallOnStopInOrder(t) ==
    /\ stopPc[t] = "waiting"
    /\ GroupCtxDone
    /\ \A u \in 1..(t - 1) : stopPc[u] \in {"done", "uuidFailed"}
    /\ stopPc' = [stopPc EXCEPT ![t] = "running"]
    /\ stopDeadline' = [stopDeadline EXCEPT ![t] = now + StopTimeout]
    /\ stopCtxErr' = [stopCtxErr EXCEPT ![t] = NewStopCtxErr(StopCtxParentDone)]
    /\ stopCtxName' = [stopCtxName EXCEPT ![t] = LoopVarName]
    /\ stopCount' = [stopCount EXCEPT ![t] = @ + 1]
    /\ UNCHANGED <<opts, optI, backgroundTasks, mainCancelled, startPc, loopI,
                   gErr, gCancelled, startUnitPc, coordPc, taskErrored,
                   bgTasksWG, sigPending, now, stopCalls, idleStop,
                   stopResult, firstTaskErr, result>>

\* The group context is done: the stop-unit builds taskStopCtx and calls OnStop.
StopUnitCallOnStop(t) ==
    /\ stopPc[t] = "waiting"
    /\ GroupCtxDone
    /\ stopPc' = [stopPc EXCEPT ![t] = "running"]
    /\ stopDeadline' = [stopDeadline EXCEPT ![t] = now + StopTimeout]
    /\ stopCtxErr' = [stopCtxErr EXCEPT ![t] = NewStopCtxErr(StopCtxParentDone)]
    /\ stopCtxName' = [stopCtxName EXCEPT ![t] = LoopVarName]
    /\ stopCount' = [stopCount EXCEPT ![t] = @ + 1]
    /\ UNCHANGED <<opts, optI, backgroundTasks, mainCancelled, startPc, loopI,
                   gErr, gCancelled, startUnitPc, coordPc, taskErrored,
                   bgTasksWG, sigPending, now, stopCalls, idleStop,
                   stopResult, firstTaskErr, result>>

\* What OnStop may return: nil, an error of its own, or its context's error.
OnStopReturns(t) ==
    {Nil, ErrStop(t)} \cup (IF stopCtxErr[t] = None THEN {} ELSE {stopCtxErr[t]})

\* OnStop returns e; taskStopCtxCancel runs and taskStopCtx goes out of scope;
\* the unit hands e to the group.
StopUnitReturn(t, e) ==
    /\ stopPc[t] = "running"
    /\ e \in OnStopReturns(t)
    /\ stopPc' = [stopPc EXCEPT ![t] = "done"]
    /\ taskErrored' = (taskErrored \/ e # Nil)
    /\ stopCtxErr' = [stopCtxErr EXCEPT ![t] = None]
    /\ stopCtxName' = [stopCtxName EXCEPT ![t] = 0]
    /\ stopDeadline' = [stopDeadline EXCEPT ![t] = 0]
    /\ gErr' = SlotAfter(gErr, e)
    /\ gCancelled' = GroupCancelAfter(gCancelled, e)
    /\ firstTaskErr' = FirstTaskErrAfter(firstTaskErr, e)
    /\ UNCHANGED <<opts, optI, backgroundTasks, mainCancelled, startPc, loopI,
                   startUnitPc, coordPc, stopCount, bgTasksWG, sigPending,
                   now, stopCalls, idleStop, stopResult, result>>

\* -------------------------------------------------------------- start-unit
\* A start-unit that skips OnStart when its context is already cancelled.
StartUnitSkipsWhenCancelled(t) ==
    /\ startUnitPc[t] = "spawned"
    /\ startUnitPc' = [startUnitPc EXCEPT
                          ![t] = IF GroupCtxDone THEN "done" ELSE "running"]
    /\ bgTasksWG' = IF GroupCtxDone THEN bgTasksWG - 1 ELSE bgTasksWG
    /\ UNCHANGED <<opts, optI, backgroundTasks, mainCancelled, startPc, loopI,
                   gErr, gCancelled, stopPc, coordPc, stopCtxErr,
                   stopCtxName, stopDeadline, stopCount, taskErrored,
                   sigPending, now, stopCalls, idleStop, stopResult,
                   firstTaskErr, result>>

\* The start-unit is scheduled and calls OnStart with the group context.
StartUnitCallOnStart(t) ==
    /\ startUnitPc[t] = "spawned"
    /\ startUnitPc' = [startUnitPc EXCEPT ![t] = "running"]
    /\ UNCHANGED <<opts, optI, backgroundTasks, mainCancelled, startPc, loopI,
                   gErr, gCancelled, stopPc, coordPc, stopCtxErr, stopCtxName,
                   stopDeadline, stopCount, taskErrored, bgTasksWG,
                   sigPending, now, stopCalls, idleStop, stopResult,
                   firstTaskErr, result>>

\* What OnStart may return: nil, an error of its own, or its context's error.
OnStartReturns(t) ==
    {Nil, ErrStart(t)} \cup (IF GroupCtxDone THEN {Canceled} ELSE {})

\* A start-unit that hands on every error, critical or not.
StartUnitErrAlways(t, taskErr) == taskErr

\* What the start-unit hands to the group when OnStart returned taskErr.
StartUnitErr(t, taskErr) ==
    IF taskErr # Nil /\ IsCriticalToStop(t) THEN taskErr ELSE Nil

\* OnStart returns e; bgTasksWG.Done(); the unit hands its error to the group.
StartUnitReturn(t, e) ==
    /\ startUnitPc[t] = "running"
    /\ e \in OnStartReturns(t)
    /\ startUnitPc' = [startUnitPc EXCEPT ![t] = "done"]
    /\ taskErrored' = (taskErrored \/ e \notin {Nil, Canceled})
    /\ bgTasksWG' = bgTasksWG - 1
    /\ gErr' = SlotAfter(gErr, StartUnitErr(t, e))
    /\ gCancelled' = GroupCancelAfter(gCancelled, StartUnitErr(t, e))
    /\ firstTaskErr' = FirstTaskErrAfter(firstTaskErr, StartUnitErr(t, e))
    /\ UNCHANGED <<opts, optI, backgroundTasks, mainCancelled, startPc, loopI,
                   stopPc, coordPc, stopCtxErr, stopCtxName, stopDeadline,
                   stopCount, sigPending, now, stopCalls, idleStop,
                   stopResult, result>>

\* ------------------------------------------------------------------ Stop()
\* A Stop() that returns the root context's error.
StopReturnsCtxErr == IF mainCancelled THEN Canceled ELSE Nil

\* The value Stop() returns.
StopReturnValue == Nil

\* c.mainContext after Stop(): mainContextCancel() is called when it is set.
MainCancelledAfterStop == IF MainContextCancelSet THEN TRUE ELSE mainCancelled

\* Stop() runs: mainContextCancel() cancels mainContext and, with it, every
\* live stop context.
StopBody ==
    /\ mainCancelled' = MainCancelledAfterStop
    /\ stopCtxErr' = IF MainCancelledAfterStop THEN CancelChildren(stopCtxErr) ELSE stopCtxErr

\* An explicit Stop() call, in any state, any number of times.
StopCall ==
    /\ StopBody
    /\ UNCHANGED <<opts, stopCtxName, optI, backgroundTasks, startPc, loopI,
                   gErr, gCancelled, stopPc, startUnitPc, coordPc,
                   stopDeadline, stopCount, taskErrored, bgTasksWG,
                   sigPending, now, stopCalls, idleStop, stopResult,
                   firstTaskErr, result>>

\* The same call with the caller's view recorded: how many calls were made,
\* whether one came before Start(), and what the call returned.
StopCallCounted ==
    /\ stopCalls < MaxStopCalls
    /\ StopBody
    /\ stopCalls' = stopCalls + 1
    /\ idleStop' = (idleStop \/ startPc = "idle")
    /\ stopResult' = StopReturnValue
    /\ UNCHANGED <<opts, stopCtxName, optI, backgroundTasks, startPc, loopI,
                   gErr, gCancelled, stopPc, startUnitPc, coordPc,
                   stopDeadline, stopCount, taskErrored, bgTasksWG,
                   sigPending, now, firstTaskErr, result>>

\* ------------------------------------------------------- coordination unit
\* A select that does not block on the group context.
CoordCtxReadyAtOnce == TRUE

\* A select without the case on the group context.
CoordCtxNeverReady == FALSE

\* The select's first case is ready.
CoordCtxReady == GroupCtxDone

\* case <-TaskErrorGroupCtx.Done(): return TaskErrorGroupCtx.Err()
CoordCtxDone ==
    /\ coordPc = "running"
    /\ CoordCtxReady
    /\ coordPc' = "doneCtx"
    /\ gErr' = SlotAfter(gErr, Canceled)
    /\ gCancelled' = GroupCancelAfter(gCancelled, Canceled)
    /\ UNCHANGED <<opts, optI, backgroundTasks, mainCancelled, startPc, loopI,
                   stopPc, startUnitPc, stopCtxErr, stopCtxName, stopDeadline,
                   stopCount, taskErrored, bgTasksWG, sigPending, now,
                   stopCalls, idleStop, stopResult, firstTaskErr, result>>

\* case <-interruptSignal: return c.Stop()
CoordSignal ==
    /\ coordPc = "running"
    /\ sigPending
    /\ sigPending' = FALSE
    /\ coordPc' = "doneSig"
    /\ StopBody
    /\ gErr' = SlotAfter(gErr, StopReturnValue)
    /\ gCancelled' = GroupCancelAfter(gCancelled, StopReturnValue)
    /\ UNCHANGED <<opts, stopCtxName, optI, backgroundTasks, startPc, loopI,
                   stopPc, startUnitPc, stopDeadline, stopCount, taskErrored,
                   bgTasksWG, now, stopCalls, idleStop, stopResult,
                   firstTaskErr, result>>

\* ------------------------------------------------------------- environment
\* One of c.signals arrives after signal.Notify, while Start() runs: it is put
\* in Start()'s interruptSignal (a signal arriving while the channel is full
\* is dropped).
SignalArrives ==
    /\ startPc = "wait"
    /\ ~sigPending
    /\ sigPending' = TRUE
    /\ UNCHANGED <<opts, optI, backgroundTasks, mainCancelled, startPc, loopI,
                   gErr, gCancelled, stopPc, startUnitPc, coordPc, stopCtxErr,
                   stopCtxName, stopDeadline, stopCount, taskErrored,
                   bgTasksWG, now, stopCalls, idleStop, stopResult,
                   firstTaskErr, result>>

\* A stop context's timer fires once the clock reaches its deadline.
ExpireTimers(errs, time) ==
    [t \in DOMAIN errs |->
        IF stopPc[t] = "running" /\ errs[t] = None /\ time >= stopDeadline[t]
        THEN DeadlineExceeded ELSE errs[t]]

\* Time passes (only the timers of live stop contexts observe it).
Tick ==
    /\ now < MaxTime
    /\ \E t \in Tasks : stopPc[t] = "running" /\ stopCtxErr[t] = None
    /\ now' = now + 1
    /\ stopCtxErr' = ExpireTimers(stopCtxErr, now + 1)
    /\ UNCHANGED <<opts, stopCtxName, optI, backgroundTasks, mainCancelled,
                   startPc, loopI, gErr, gCancelled, stopPc, startUnitPc,
                   coordPc, stopDeadline, stopCount, taskErrored, bgTasksWG,
                   sigPending, stopCalls, idleStop, stopResult, firstTaskErr,
                   result>>

\* -------------------------------------------------------------------- Next
\* Start() and its units.
Program ==
    \/ StartBegin
    \/ SpawnTask
    \/ NotifyAndSpawnCoord
    \/ StartReturn
    \/ \E t \in Tasks : StopUnitUUIDFails(t)
    \/ \E t \in Tasks : StopUnitCallOnStop(t)
    \/ \E t \in Tasks : \E e \in OnStopReturns(t) : StopUnitReturn(t, e)
    \/ \E t \in Tasks : StartUnitCallOnStart(t)
    \/ \E t \in Tasks : \E e \in OnStartReturns(t) : StartUnitReturn(t, e)
    \/ CoordCtxDone
    \/ CoordSignal

\* Signals and time.
Environment ==
    \/ SignalArrives
    \/ Tick

Next ==
    \/ Program
    \/ Environment
    \/ StopCall

Spec == Init /\ [][Next]_vars

\* The same program with the caller's Stop() calls counted.
NextStop ==
    \/ Program
    \/ Environment
    \/ StopCallCounted

StopSpec == InitSmall /\ [][NextStop]_vars

\* The scheduler runs every unit that can take a step; OnStart returns once
\* its context is cancelled and OnStop returns no later than its deadline.
Fairness ==
    /\ WF_vars(SpawnTask)
    /\ WF_vars(NotifyAndSpawnCoord)
    /\ WF_vars(StartReturn)
    /\ WF_vars(CoordCtxDone \/ CoordSignal)
    /\ \A t \in 1..MaxSmallTasks :
          /\ WF_vars(t \in Tasks /\ (StopUnitUUIDFails(t) \/ StopUnitCallOnStop(t)))
          /\ WF_vars(t \in Tasks /\ \E e \in OnStopReturns(t) : StopUnitReturn(t, e))
          /\ WF_vars(t \in Tasks /\ StartUnitCallOnStart(t))
          /\ WF_vars(t \in Tasks /\ GroupCtxDone
                       /\ \E e \in OnStartReturns(t) : StartUnitReturn(t, e))

FairSpec == InitSmall /\ [][Next]_vars /\ Fairness

\* ------------------------------------------------------------- NewBrokkr()
\* The tasks a caller may pass; the same task may be passed more than once.
TaskPool == {[name |-> 1, critical |-> TRUE], [name |-> 2, critical |-> FALSE]}

\* The sequences over S of length at most n.
SeqsUpTo(S, n) == UNION {[1..k -> S] : k \in 0..n}

\* NewBrokkr's possible arguments: up to MaxOpts AddBackgroundTasks options,
\* each given up to MaxArgs tasks.
OptionLists == SeqsUpTo(SeqsUpTo(TaskPool, MaxArgs), MaxOpts)

\* An option that replaces the collection with its own tasks.
OverwriteTasks(bts, bt) == bt

\* append(c.backgroundTasks, bt...)
AppendTasks(bts, bt) == bts \o bt

\* NewBrokkr has built the Brokkr value and its root context and is about to
\* apply its options.
InitConfig ==
    /\ opts \in OptionLists
    /\ optI = 1
    /\ backgroundTasks = <<>>
    /\ mainCancelled = FALSE
    /\ startPc = "idle"
    /\ loopI = 1
    /\ gErr = Nil
    /\ gCancelled = FALSE
    /\ stopPc = <<>>
    /\ startUnitPc = <<>>
    /\ coordPc = "none"
    /\ stopCtxErr = <<>>
    /\ stopCtxName = <<>>
    /\ stopDeadline = <<>>
    /\ stopCount = <<>>
    /\ taskErrored = FALSE
    /\ bgTasksWG = 0
    /\ sigPending = FALSE
    /\ now = 0
    /\ stopCalls = 0
    /\ idleStop = FALSE
    /\ stopResult = None
    /\ firstTaskErr = None
    /\ result = None

\* One iteration of NewBrokkr's loop: the option's closure appends its tasks.
ApplyOption ==
    /\ optI <= Len(opts)
    /\ backgroundTasks' = AppendTasks(backgroundTasks, opts[optI])
    /\ optI' = optI + 1
    /\ UNCHANGED <<opts, mainCancelled, startPc, loopI, gErr, gCancelled,
                   stopPc, startUnitPc, coordPc, stopCtxErr, stopCtxName,
                   stopDeadline, stopCount, taskErrored, bgTasksWG,
                   sigPending, now, stopCalls, idleStop, stopResult,
                   firstTaskErr, result>>

NextConfig == ApplyOption

\* The construction of an orchestrator, option by option.
ConfigSpec == InitConfig /\ [][NextConfig]_vars

\* ------------------------------------------------------------------ claims
\* The program's own variables: everything but the caller's view of Stop().
progVars == <<backgroundTasks, mainCancelled, startPc, loopI, gErr, gCancelled,
              stopPc, startUnitPc, coordPc, stopCtxErr, stopCtxName,
              stopDeadline, stopCount,
              taskErrored, bgTasksWG, sigPending, now, firstTaskErr, result>>

\* C1: no task's OnStop is invoked more than once, and when Start() has
\* returned every registered task's OnStop has been invoked exactly once.
C1_StopExactlyOnce ==
    /\ \A t \in Tasks : stopCount[t] <= 1
    /\ startPc = "done" => \A t \in Tasks : stopCount[t] = 1

\* C2: what Start() returns is the earliest non-cancellation error an OnStop
\* or a critical OnStart returned, and nil only if there was none (stated for
\* the runs in which every stop-unit reached its OnStop).
C2_ReturnsEarliestError ==
    (startPc = "done" /\ \A t \in Tasks : stopPc[t] = "done") =>
        result = (IF firstTaskErr = None THEN Nil ELSE firstTaskErr)

\* C3: when a critical OnStart fails before any cancellation (the slot holds
\* its error and the root was never cancelled), every task's OnStop is
\* invoked and Start() returns that error.
C3_CriticalFailureStopsAll ==
    (startPc = "done" /\ gErr.kind = "start" /\ ~mainCancelled) =>
        /\ result = gErr
        /\ \A t \in Tasks : stopCount[t] = 1

\* C4: a non-critical start-unit's return leaves the cancellation signal, the
\* first-error slot, every stop-unit and Start() as they were, and its
\* OnStart's error is never what Start() returns.
C4_NonCriticalDiscarded ==
    /\ [][\A t \in Tasks :
            (~IsCriticalToStop(t) /\ startUnitPc[t] = "running"
                                  /\ startUnitPc'[t] = "done") =>
                UNCHANGED <<mainCancelled, gCancelled, gErr, firstTaskErr,
                            stopPc, stopCount, stopCtxErr, coordPc, startPc,
                            result>>]_vars
    /\ [](\A t \in Tasks : ~IsCriticalToStop(t) => result # ErrStart(t))

\* C4's case: a non-critical OnStart has returned an error of its own and
\* Start() is still blocked with the cancellation signal not fired.
C4_Witness ==
    /\ startPc = "wait"
    /\ taskErrored
    /\ ~GroupCtxDone
    /\ gErr = Nil
    /\ \E t \in Tasks : ~IsCriticalToStop(t) /\ startUnitPc[t] = "done"

\* C5: while OnStop runs, its context is either not done and before its
\* deadline, or done with deadline-exceeded at or after the deadline; it is
\* never done with a plain cancellation.
C5_StopCtxLiveUntilDeadline ==
    \A t \in Tasks :
        stopPc[t] = "running" =>
            \/ stopCtxErr[t] = None /\ now < stopDeadline[t]
            \/ stopCtxErr[t] = DeadlineExceeded /\ now >= stopDeadline[t]

C7_CleanShutdownReturnsNil ==
    (startPc = "done" /\ mainCancelled /\ ~taskErrored
                      /\ \A t \in Tasks : stopPc[t] = "done") =>
        result = Nil

\* C7's case: such a shutdown of at least one task, in which the cancellation
\* error reached the first-error slot.
C7_Witness ==
    /\ startPc = "done"
    /\ Tasks # {}
    /\ mainCancelled
    /\ ~taskErrored
    /\ \A t \in Tasks : stopPc[t] = "done"
    /\ gErr = Canceled

\* C8: every Stop() call returns nil, and a Stop() call on an already
\* cancelled root changes nothing of the program's state (cancellation state,
\* first-error slot, OnStop counts, units, Start()'s result).
C8_StopIdempotent ==
    [][stopCalls' = stopCalls + 1 =>
          /\ stopResult' = Nil
          /\ mainCancelled => UNCHANGED progVars]_vars

\* C8's case: a second Stop() was called while a task's OnStop was running.
C8_Witness ==
    /\ stopCalls >= 2
    /\ startPc = "wait"
    /\ \E t \in Tasks : stopPc[t] = "running"

\* C9: once a running Start() has a cancellation trigger (the cancellation
\* signal has fired through Stop() or a critical failure, or a signal waits
\* in the channel of the coordination unit), Start() eventually returns; with
\* no tasks it returns nil.
C9_StartEventuallyReturns ==
    /\ (startPc \in {"loop", "wait"}
           /\ (GroupCtxDone \/ (sigPending /\ coordPc = "running")))
          ~> (startPc = "done")
    /\ [](startPc = "done" /\ Tasks = {} => result = Nil)

\* C9's case: Start() has returned after a cancellation, all of its task's
\* units done.
C9_Witness ==
    /\ startPc = "done"
    /\ Tasks # {}
    /\ mainCancelled

\* C10: when Start() has returned, every start-unit, every stop-unit and the
\* coordination unit have returned.
C10_ReturnsAfterAllUnits ==
    startPc = "done" =>
        /\ \A t \in Tasks : startUnitPc[t] = "done"
        /\ \A t \in Tasks : stopPc[t] \in {"done", "uuidFailed"}
        /\ coordPc \in {"doneCtx", "doneSig"}
        /\ bgTasksWG = 0

\* C10's case: Start() has returned with two or more tasks (five or more units).
C10_Witness ==
    /\ startPc = "done"
    /\ Len(backgroundTasks) >= 2

\* C11: a signal consumed by the coordination unit has the effect of an
\* explicit Stop(): stated on the run of one non-critical task, whichever of
\* the two cancelled the root, the coordination unit left the first-error slot
\* alone and Start() returns what the task's OnStop returned (nil for nil or
\* the cancellation error).
C11_SignalSameAsStop ==
    (startPc = "done" /\ mainCancelled /\ Len(backgroundTasks) = 1
                      /\ ~IsCriticalToStop(1) /\ stopPc[1] = "done") =>
        result = (IF firstTaskErr = None THEN Nil ELSE firstTaskErr)

\* C12: once the cancellation signal has fired (the root is cancelled or the
\* group cancelled its context), every stop-unit that is still blocked can
\* invoke its OnStop at once, and every OnStop in progress can return,
\* whatever the other tasks' stop-units and start-units are doing.
C12_StopPhasesIndependent ==
    \A t \in Tasks :
        /\ (stopPc[t] = "waiting" /\ (mainCancelled \/ gCancelled)) =>
               ENABLED StopUnitCallOnStop(t)
        /\ stopPc[t] = "running" => ENABLED StopUnitReturn(t, Nil)

\* C12's case: with two or more tasks, every task's OnStop is in progress at
\* the same time while a start-unit has not even been scheduled.
C12_Witness ==
    /\ Len(backgroundTasks) >= 2
    /\ \A t \in Tasks : stopPc[t] = "running"
    /\ \E t \in Tasks : startUnitPc[t] = "spawned"

\* The tasks of the first n options, in the order they were passed.
RECURSIVE C13_Passed(_)
C13_Passed(n) == IF n = 0 THEN <<>> ELSE C13_Passed(n - 1) \o opts[n]

\* How many times task x occurs in the sequence q.
C13_Count(x, q) == Cardinality({i \in 1..Len(q) : q[i] = x})

\* C13: the managed collection holds exactly the tasks of the options applied
\* so far, in the order passed, each as often as it was passed; once NewBrokkr
\* has applied every option it holds the tasks of all of them.
C13_TasksRoundTrip ==
    /\ backgroundTasks = C13_Passed(optI - 1)
    /\ \A x \in TaskPool :
           C13_Count(x, backgroundTasks) = C13_Count(x, C13_Passed(optI - 1))
    /\ optI > Len(opts) =>
           /\ backgroundTasks = C13_Passed(Len(opts))
           /\ \A x \in TaskPool : \A k \in 1..Len(opts) :
                  C13_Count(x, backgroundTasks) >= C13_Count(x, opts[k])

\* C13's case: NewBrokkr has applied two non-empty options that have a task in
\* common.
C13_Witness ==
    /\ Len(opts) >= 2
    /\ optI > Len(opts)
    /\ \E x \in TaskPool : C13_Count(x, opts[1]) >= 1 /\ C13_Count(x, opts[2]) >= 1
    /\ Len(backgroundTasks) >= 3

\* C14: a task's OnStop is invoked only when the cancellation signal has
\* fired: the root was cancelled (by Stop() or a consumed signal) or the
\* first-error slot holds the error of a critical task's OnStart; and that
\* stays so for every task whose OnStop was invoked.
C14_OnStopOnlyAfterCancel ==
    /\ [][\A t \in Tasks :
            stopCount'[t] > stopCount[t] =>
                \/ mainCancelled
                \/ gErr.kind = "start" /\ IsCriticalToStop(gErr.task)]_vars
    /\ [](\A t \in Tasks :
            stopCount[t] > 0 =>
                \/ mainCancelled
                \/ gErr.kind = "start" /\ IsCriticalToStop(gErr.task))

\* C14's case: an OnStop is in progress after a critical start failure, the
\* root not cancelled, while another task's stop-unit is still blocked.
C14_Witness ==
    /\ ~mainCancelled
    /\ gErr.kind = "start"
    /\ \E t \in Tasks : stopCount[t] = 1 /\ stopPc[t] = "running"
    /\ \E t \in Tasks : stopPc[t] = "waiting"

\* C15: the context handed to a task's OnStop is tagged with that task's own
\* name.
C15_StopCtxTaggedWithOwnName ==
    \A t \in Tasks :
        stopPc[t] = "running" => stopCtxName[t] = backgroundTasks[t].name

\* C16: when UUID generation fails in task t's stop-unit, the unit's error
\* goes to the first-error slot if the slot is empty (and cancels the group),
\* no other unit is touched, a UUID error in the slot is what Start()
\* returns, and every other task's blocked stop-unit can still invoke its
\* OnStop and has done so by the time Start() returns unless its own UUID
\* generation failed.
C16_UUIDFailureIsStopError ==
    /\ [][\A t \in Tasks :
            (stopPc[t] = "waiting" /\ stopPc'[t] = "uuidFailed") =>
                /\ gErr = Nil => (gErr'.kind = "uuid" /\ gErr'.task = t)
                /\ gErr # Nil => gErr' = gErr
                /\ gCancelled'
                /\ \A u \in Tasks \ {t} : stopPc'[u] = stopPc[u]
                /\ UNCHANGED <<startUnitPc, coordPc, stopCount, mainCancelled>>]_vars
    /\ [](startPc = "done" /\ gErr.kind = "uuid" => result = gErr)
    /\ [](\A t \in Tasks : \A u \in Tasks \ {t} :
            (stopPc[t] = "uuidFailed" /\ stopPc[u] = "waiting") =>
                ENABLED StopUnitCallOnStop(u))
    /\ [](startPc = "done" =>
            \A u \in Tasks : stopPc[u] # "uuidFailed" => stopCount[u] = 1)

\* C16's case: Start() has returned a task's UUID error, the first error
\* submitted, and the other task's OnStop was invoked after that failure.
C16_Witness ==
    /\ startPc = "done"
    /\ result.kind = "uuid"
    /\ mainCancelled
    /\ \E t \in Tasks : stopPc[t] = "uuidFailed" /\ result.task = t
    /\ \E u \in Tasks : stopPc[u] = "done" /\ stopCount[u] = 1

\* The lifecycle state: 0 Idle (Start() not called), 1 Running (Start()
\* called, cancellation signal not fired), 2 Stopping (signal fired, Start()
\* not returned), 3 Terminated (Start() returned).
C17_Phase ==
    IF startPc = "idle" THEN 0
    ELSE IF startPc = "done" THEN 3
    ELSE IF mainCancelled \/ gCancelled THEN 2
    ELSE 1

\* A cancellation trigger has occurred: the root was cancelled by Stop() or a
\* consumed signal, or a critical task's OnStart error is in the slot.
C17_Triggered ==
    \/ mainCancelled
    \/ gErr.kind = "start" /\ IsCriticalToStop(gErr.task)

C18_Rank(pc) ==
    CASE pc = "none" -> 0 [] pc = "spawned" -> 1
      [] pc = "running" -> 2 [] pc = "done" -> 3

\* C18: every start-unit goes through spawned, OnStart invoked, returned, one
\* position at a time and never back, so OnStart is invoked once and no
\* start-unit returns without it; a spawned start-unit can invoke OnStart in
\* every state, also when the root was cancelled before Start() or its own
\* task's OnStop is running or has returned; and when Start() has returned
\* every task's OnStart was invoked and has returned.
C18_OnStartExactlyOnce ==
    /\ [][\A t \in Tasks :
            \/ startUnitPc'[t] = startUnitPc[t]
            \/ C18_Rank(startUnitPc'[t]) = C18_Rank(startUnitPc[t]) + 1]_vars
    /\ [](\A t \in Tasks :
            startUnitPc[t] = "spawned" => ENABLED StartUnitCallOnStart(t))
    /\ [](startPc = "done" => \A t \in Tasks : startUnitPc[t] = "done")

\* C18's case: the root was cancelled before Start(), the task's OnStop has
\* already returned, and its OnStart has been invoked and is in progress.
C18_Witness ==
    /\ idleStop
    /\ \E t \in Tasks :
          /\ stopPc[t] = "done"
          /\ stopCount[t] = 1
          /\ startUnitPc[t] = "running"

\* C19: the root context goes from live to cancelled only on a step that is
\* a Stop() call or the coordination unit consuming a signal, and never back;
\* while neither has happened it is live, whatever errors the units returned
\* and also after Start() has returned.
C19_RootCancelledOnlyByStop ==
    /\ [][mainCancelled' # mainCancelled =>
            /\ mainCancelled'
            /\ \/ stopCalls' = stopCalls + 1
               \/ coordPc = "running" /\ coordPc' = "doneSig"]_vars
    /\ [](stopCalls = 0 /\ coordPc # "doneSig" => ~mainCancelled)

\* C19's case: Start() has returned a critical task's OnStart error after a
\* shutdown with no Stop() and no signal, and the root is live.
C19_Witness ==
    /\ startPc = "done"
    /\ result.kind = "start"
    /\ stopCalls = 0
    /\ coordPc = "doneCtx"
    /\ \A t \in Tasks : stopPc[t] = "done"
    /\ ~mainCancelled

\* C20: while Start() has not returned, a cancelled group context means the
\* root is cancelled or the first-error slot holds an error; and a written
\* slot never changes.
C20_GroupCancelHasCause ==
    /\ [](startPc \in {"loop", "wait"} /\ GroupCtxDone =>
             mainCancelled \/ gErr # Nil)
    /\ [](startPc \in {"loop", "wait"} /\ gCancelled => gErr # Nil)
    /\ [][gErr # Nil => gErr' = gErr]_vars

\* C20's case: the group cancelled its context on a critical failure, the
\* root is live, and a later unit's error (a UUID failure) was submitted to
\* the written slot.
C20_Witness ==
    /\ startPc = "wait"
    /\ gCancelled
    /\ ~mainCancelled
    /\ gErr.kind = "start"
    /\ \E t \in Tasks : stopPc[t] = "uuidFailed"

====
